---- MODULE Spec2Model ----
(***************************************************************************)
(* Model of the fal upload deduplication cache:                            *)
(*   src/fal_upload_db.py       FalUploadDB, the SQLite record store       *)
(*   src/fal_upload_wrapper.py  the resolver and the upload command        *)
(*                                                                         *)
(* The table "uploads" is a sequence of rows; the row at position i has    *)
(* id = i (INTEGER PRIMARY KEY AUTOINCREMENT, no DELETE statement in the   *)
(* code).  Timestamps are read from one wall clock, now, counted in        *)
(* seconds: CURRENT_TIMESTAMP has one-second resolution, and the           *)
(* datetime.now().isoformat() stamps are kept at the same resolution.      *)
(* A liveness probe is an HTTP HEAD request: its outcome is an input of    *)
(* every single probe.  The local file system is not owned by the program: *)
(* what a path holds when an operation looks at it is an input of that     *)
(* operation.  Operators that contain a SELECT ... ORDER BY created_at     *)
(* DESC LIMIT 1 (or a LIMIT without ORDER BY) return the SET of their      *)
(* possible outcomes, because SQL leaves the order of rows with equal      *)
(* sort keys open; every operation is a function from the table, the       *)
(* clock and its inputs to that set, and the actions apply it.             *)
(***************************************************************************)
EXTENDS Integers, Sequences, FiniteSets, TLC

(* ------------------------------ bounds --------------------------------- *)
MaxRecords == 2
MaxStatsRecords == 3
MaxTime == 1

Names == {"a.png", "b.png"}
Dirs == {"in"}
Paths == Dirs \X Names
Contents == {"B1", "B2"}
Urls == {"u1", "u2"}
StatsNames == {"a.png"}
StatsUrls == {"u1"}

(* ----------------------------- constants ------------------------------- *)
None == "None"
Missing == "Missing"
Unreadable == "Unreadable"
Malformed == "Malformed"
NoPath == <<>>
NoRow == [id |-> 0]
DefaultBatchSize == 100
BatchSizes == {0, 1, DefaultBatchSize}
FileStates == Contents \cup {Missing, Unreadable}
StatusCodes == {200, 204, 404}
Exceptions == {"Timeout", "ConnectionError"}
Queries == {"", "a", "A", "png", "u1", "in/", "x", "_", "%"}
Limits == {0, 1, DefaultBatchSize}
HeadResults ==
  [status_code : StatusCodes, error : {None}] \cup [status_code : {0}, error : Exceptions]
StatsHeads == {[status_code |-> 200, error |-> None], [status_code |-> 0, error |-> "Timeout"]}

VARIABLES uploads, now, callers

vars == <<uploads, now, callers>>

(* ------------------------- path and file helpers ----------------------- *)
basename(p) == p[2]

exists(p, c) == p # NoPath /\ c # Missing

sha256(c) == "sha256:" \o c

getsize(c) == IF c = "B1" THEN 1 ELSE IF c = "B2" THEN 2 ELSE 0

calculate_file_hash(c) == IF c \in Contents THEN sha256(c) ELSE None

Hashes == {sha256(c) : c \in Contents}

(* ------------------------------ the store ------------------------------ *)
(* A slip: response.ok (any status below 400) instead of status 200.       *)
check_url_validity_ok(head) == head.error = None /\ head.status_code < 400

(* requests.head either raises (error) or answers with a status code; the  *)
(* live argument of the lookups and of the sweep is this function's value. *)
check_url_validity(head) == head.error = None /\ head.status_code = 200

RowDict(db, i) == [id |-> i, filename |-> db[i].filename, url |-> db[i].url,
                   file_hash |-> db[i].file_hash, upload_date |-> db[i].upload_date]

Probe(db, i, ok) == [id |-> i, url |-> db[i].url, live |-> ok]

(* A slip: DELETE FROM uploads WHERE id = ? in place of the UPDATE.         *)
invalidate_record_delete(db, t, id) ==
  IF id \in 1..Len(db)
  THEN SubSeq(db, 1, id - 1) \o SubSeq(db, id + 1, Len(db))
  ELSE db

(* A slip in the UPDATE: the flag is flipped instead of cleared.            *)
invalidate_record_toggle(db, t, id) ==
  IF id \in 1..Len(db)
  THEN [db EXCEPT ![id].is_valid = 1 - db[id].is_valid, ![id].updated_at = t]
  ELSE db

invalidate_record(db, t, id) ==
  IF id \in 1..Len(db)
  THEN [db EXCEPT ![id].is_valid = 0, ![id].updated_at = t]
  ELSE db

SelectLatest(db, col, key) ==
  LET S == {i \in 1..Len(db) : db[i][col] = key /\ db[i].is_valid = 1}
  IN {i \in S : \A j \in S : db[j].created_at <= db[i].created_at}

(* A slip: the UPDATE names the column upload_date, not last_verified.      *)
find_by_filename_touch(db, t, filename, validate_url, live) ==
  LET S == SelectLatest(db, "filename", filename)
  IN IF S = {}
     THEN {[db |-> db, ret |-> NoRow, probes |-> <<>>]}
     ELSE {IF validate_url /\ ~live
           THEN [db |-> invalidate_record(db, t, i), ret |-> NoRow,
                 probes |-> <<Probe(db, i, FALSE)>>]
           ELSE [db |-> [db EXCEPT ![i].upload_date = t, ![i].updated_at = t],
                 ret |-> RowDict(db, i),
                 probes |-> IF validate_url THEN <<Probe(db, i, TRUE)>> ELSE <<>>]
           : i \in S}

(* A slip: after a failed probe the record is not invalidated.              *)
find_by_filename_keep(db, t, filename, validate_url, live) ==
  LET S == SelectLatest(db, "filename", filename)
  IN IF S = {}
     THEN {[db |-> db, ret |-> NoRow, probes |-> <<>>]}
     ELSE {IF validate_url /\ ~live
           THEN [db |-> db, ret |-> NoRow, probes |-> <<Probe(db, i, FALSE)>>]
           ELSE [db |-> [db EXCEPT ![i].last_verified = t, ![i].updated_at = t],
                 ret |-> RowDict(db, i),
                 probes |-> IF validate_url THEN <<Probe(db, i, TRUE)>> ELSE <<>>]
           : i \in S}

find_by_filename(db, t, filename, validate_url, live) ==
  LET S == SelectLatest(db, "filename", filename)
  IN IF S = {}
     THEN {[db |-> db, ret |-> NoRow, probes |-> <<>>]}
     ELSE {IF validate_url /\ ~live
           THEN [db |-> invalidate_record(db, t, i), ret |-> NoRow,
                 probes |-> <<Probe(db, i, FALSE)>>]
           ELSE [db |-> [db EXCEPT ![i].last_verified = t, ![i].updated_at = t],
                 ret |-> RowDict(db, i),
                 probes |-> IF validate_url THEN <<Probe(db, i, TRUE)>> ELSE <<>>]
           : i \in S}

(* A slip: the row is still returned after its probe failed.               *)
find_by_hash_stale(db, t, file_hash, validate_url, live) ==
  LET S == SelectLatest(db, "file_hash", file_hash)
  IN IF S = {}
     THEN {[db |-> db, ret |-> NoRow, probes |-> <<>>]}
     ELSE {IF validate_url /\ ~live
           THEN [db |-> invalidate_record(db, t, i), ret |-> RowDict(db, i),
                 probes |-> <<Probe(db, i, FALSE)>>]
           ELSE [db |-> db, ret |-> RowDict(db, i),
                 probes |-> IF validate_url THEN <<Probe(db, i, TRUE)>> ELSE <<>>]
           : i \in S}

find_by_hash(db, t, file_hash, validate_url, live) ==
  LET S == SelectLatest(db, "file_hash", file_hash)
  IN IF S = {}
     THEN {[db |-> db, ret |-> NoRow, probes |-> <<>>]}
     ELSE {IF validate_url /\ ~live
           THEN [db |-> invalidate_record(db, t, i), ret |-> NoRow,
                 probes |-> <<Probe(db, i, FALSE)>>]
           ELSE [db |-> db, ret |-> RowDict(db, i),
                 probes |-> IF validate_url THEN <<Probe(db, i, TRUE)>> ELSE <<>>]
           : i \in S}

insert_upload(db, t, filename, url, file_path, c) ==
  LET found == exists(file_path, c)
      row == [filename |-> filename, url |-> url, file_path |-> file_path,
              file_size |-> IF found THEN getsize(c) ELSE None,
              file_hash |-> IF found THEN calculate_file_hash(c) ELSE None,
              upload_date |-> t, last_verified |-> t, is_valid |-> 1,
              created_at |-> t, updated_at |-> t]
  IN [db |-> Append(db, row), ret |-> Len(db) + 1]

(* The number of rows a SELECT ... LIMIT k returns out of n that match: a  *)
(* negative k is no limit in SQLite.                                       *)
Limit(n, k) == IF k < 0 \/ n < k THEN n ELSE k

RECURSIVE InvalidateDead(_, _, _)
InvalidateDead(db, t, dead) ==
  IF dead = {} THEN db
  ELSE LET i == CHOOSE x \in dead : \A y \in dead : x <= y
       IN InvalidateDead(invalidate_record(db, t, i), t, dead \ {i})

(* A slip: dead rows are counted but the invalidation is left out.         *)
cleanup_invalid_urls_keep(db, t, batch_size, live) ==
  LET valid == {i \in 1..Len(db) : db[i].is_valid = 1}
      n == Limit(Cardinality(valid), batch_size)
  IN {LET dead == {i \in records : ~live[i]}
      IN [db |-> db, ret |-> Cardinality(dead),
          probed |-> {Probe(db, i, live[i]) : i \in records}]
      : records \in {R \in SUBSET valid : Cardinality(R) = n}}

(* A slip: the LIMIT is left out of the SELECT, every valid record is      *)
(* probed.                                                                 *)
cleanup_invalid_urls_nolimit(db, t, batch_size, live) ==
  LET valid == {i \in 1..Len(db) : db[i].is_valid = 1}
  IN {LET dead == {i \in valid : ~live[i]}
      IN [db |-> InvalidateDead(db, t, dead), ret |-> Cardinality(dead),
          probed |-> {Probe(db, i, live[i]) : i \in valid}]}

cleanup_invalid_urls(db, t, batch_size, live) ==
  LET valid == {i \in 1..Len(db) : db[i].is_valid = 1}
      n == Limit(Cardinality(valid), batch_size)
  IN {LET dead == {i \in records : ~live[i]}
      IN [db |-> InvalidateDead(db, t, dead), ret |-> Cardinality(dead),
          probed |-> {Probe(db, i, live[i]) : i \in records}]
      : records \in {R \in SUBSET valid : Cardinality(R) = n}}

RECURSIVE Count(_, _, _)
Count(db, n, v) ==
  IF n = 0 THEN 0
  ELSE Count(db, n - 1, v) + (IF db[n].is_valid = v THEN 1 ELSE 0)

(* A slip: the WHERE is_valid = 1 is missing from the second COUNT.        *)
get_stats_all(db) ==
  [total_records |-> Len(db),
   valid_records |-> Len(db),
   invalid_records |-> Count(db, Len(db), 0)]

get_stats(db) ==
  [total_records |-> Len(db),
   valid_records |-> Count(db, Len(db), 1),
   invalid_records |-> Count(db, Len(db), 0)]

(* Text as SQLite's LIKE reads it: a string, one character at a time.      *)
CharAt(s, k) == SubSeq(s, k, k)

From(s, k) == SubSeq(s, k, Len(s))

lower(c) ==
  LET upper == "ABCDEFGHIJKLMNOPQRSTUVWXYZ"
      K == {k \in 1..26 : CharAt(upper, k) = c}
  IN IF K = {} THEN c ELSE CharAt("abcdefghijklmnopqrstuvwxyz", CHOOSE k \in K : TRUE)

PathText(p) == p[1] \o "/" \o p[2]

(* text LIKE pattern: % is any run of characters, _ is any one character,  *)
(* every other character stands for itself, ASCII letters in either case.  *)
RECURSIVE Like(_, _)
Like(pattern, text) ==
  IF pattern = "" THEN text = ""
  ELSE IF CharAt(pattern, 1) = "%"
  THEN \E k \in 1..(Len(text) + 1) : Like(From(pattern, 2), From(text, k))
  ELSE IF text = "" THEN FALSE
  ELSE /\ (CharAt(pattern, 1) = "_" \/ lower(CharAt(pattern, 1)) = lower(CharAt(text, 1)))
       /\ Like(From(pattern, 2), From(text, 2))

SearchMatches(db, query) ==
  LET pattern == "%" \o query \o "%"
  IN {i \in 1..Len(db) :
        /\ db[i].is_valid = 1
        /\ query # "" =>
             \/ Like(pattern, db[i].filename)
             \/ Like(pattern, db[i].url)
             \/ (db[i].file_path # NoPath /\ Like(pattern, PathText(db[i].file_path)))}

(* The result lists of ORDER BY created_at DESC LIMIT limit: rows with the *)
(* same created_at come in any order.                                      *)
search_uploads(db, query, limit) ==
  LET rows == SearchMatches(db, query)
      n == Limit(Cardinality(rows), limit)
  IN {[k \in 1..n |-> RowDict(db, ids[k])] :
        ids \in {sq \in [1..n -> rows] :
                   /\ \A j \in 1..n, k \in 1..n : j < k =>
                        (sq[j] # sq[k] /\ db[sq[j]].created_at >= db[sq[k]].created_at)
                   /\ \A i \in rows : (\A k \in 1..n : sq[k] # i) =>
                        \A k \in 1..n : db[i].created_at <= db[sq[k]].created_at}}

RECURSIVE MigrateItems(_, _, _, _)
MigrateItems(db, t, items, migrated_count) ==
  IF items = <<>>
  THEN {[db |-> db, ret |-> migrated_count]}
  ELSE LET filename == Head(items)[1]
           url == Head(items)[2]
       IN UNION {
            IF existing.ret = NoRow
            THEN MigrateItems(insert_upload(existing.db, t, filename, url, NoPath, Missing).db,
                              t, Tail(items), migrated_count + 1)
            ELSE MigrateItems(existing.db, t, Tail(items), migrated_count)
            : existing \in find_by_filename(db, t, filename, FALSE, TRUE)}

migrate_from_json(db, t, doc) ==
  IF doc.file = Missing THEN {[db |-> db, ret |-> 0]}
  ELSE IF doc.file = Malformed THEN {[db |-> db, ret |-> 0]}
  ELSE MigrateItems(db, t, doc.data, 0)

(* ------------------------------ the wrapper ---------------------------- *)
(* A slip: after a dead file name hit the file name is looked up again.    *)
check_file_in_database_retry(db, t, file_path, c, live1, live2) ==
  UNION {
    IF o1.ret # NoRow
    THEN {[db |-> o1.db, found |-> TRUE, ret |-> o1.ret, probes |-> o1.probes,
           lookups |-> <<"filename">>]}
    ELSE {[db |-> o2.db, found |-> o2.ret # NoRow, ret |-> o2.ret,
           probes |-> o1.probes \o o2.probes,
           lookups |-> <<"filename", "filename">>]
          : o2 \in find_by_filename(o1.db, t, basename(file_path), TRUE, live2)}
    : o1 \in find_by_filename(db, t, basename(file_path), TRUE, live1)}

(* A slip: the content hash fallback is left out.                          *)
check_file_in_database_nohash(db, t, file_path, c, live1, live2) ==
  {IF o1.ret # NoRow
   THEN [db |-> o1.db, found |-> TRUE, ret |-> o1.ret, probes |-> o1.probes,
         lookups |-> <<"filename">>]
   ELSE [db |-> o1.db, found |-> FALSE, ret |-> NoRow, probes |-> o1.probes,
         lookups |-> <<"filename">>]
   : o1 \in find_by_filename(db, t, basename(file_path), TRUE, live1)}

check_file_in_database(db, t, file_path, c, live1, live2) ==
  UNION {
    IF o1.ret # NoRow
    THEN {[db |-> o1.db, found |-> TRUE, ret |-> o1.ret, probes |-> o1.probes,
           lookups |-> <<"filename">>]}
    ELSE IF exists(file_path, c) /\ calculate_file_hash(c) # None
    THEN {[db |-> o2.db, found |-> o2.ret # NoRow, ret |-> o2.ret,
           probes |-> o1.probes \o o2.probes,
           lookups |-> <<"filename", "file_hash">>]
          : o2 \in find_by_hash(o1.db, t, calculate_file_hash(c), TRUE, live2)}
    ELSE {[db |-> o1.db, found |-> FALSE, ret |-> NoRow, probes |-> o1.probes,
           lookups |-> <<"filename">>]}
    : o1 \in find_by_filename(db, t, basename(file_path), TRUE, live1)}

run_local_fal_upload(upres) == upres

(* A slip: the --force-upload test is left out, a hit is always reused.    *)
upload_with_database_wrapper_noforce(db, t, file_path, c, force, script, live1, live2, upres, insertOk) ==
  LET quiet == [db |-> db, ret |-> None, probes |-> <<>>, lookups |-> <<>>,
                uploader |-> FALSE, inserted |-> 0]
  IN IF ~exists(file_path, c) THEN {quiet}
     ELSE IF ~script THEN {quiet}
     ELSE {IF r.found
           THEN [db |-> r.db, ret |-> r.ret.url, probes |-> r.probes,
                 lookups |-> r.lookups, uploader |-> FALSE, inserted |-> 0]
           ELSE LET ins == insert_upload(r.db, t, basename(file_path), upres,
                                         file_path, c)
                IN IF upres = None
                   THEN [db |-> r.db, ret |-> None, probes |-> r.probes,
                         lookups |-> r.lookups, uploader |-> TRUE, inserted |-> 0]
                   ELSE IF insertOk
                   THEN [db |-> ins.db, ret |-> upres, probes |-> r.probes,
                         lookups |-> r.lookups, uploader |-> TRUE,
                         inserted |-> ins.ret]
                   ELSE [db |-> r.db, ret |-> upres, probes |-> r.probes,
                         lookups |-> r.lookups, uploader |-> TRUE, inserted |-> 0]
           : r \in check_file_in_database(db, t, file_path, c, live1, live2)}

(* A slip: the try/except around insert_upload is left out, the store's     *)
(* error leaves the call instead of the uploaded url.                      *)
upload_with_database_wrapper_nocatch(db, t, file_path, c, force, script, live1, live2, upres, insertOk) ==
  LET quiet == [db |-> db, ret |-> None, probes |-> <<>>, lookups |-> <<>>,
                uploader |-> FALSE, inserted |-> 0]
  IN IF ~exists(file_path, c) THEN {quiet}
     ELSE IF ~script THEN {quiet}
     ELSE {IF r.found /\ ~force
           THEN [db |-> r.db, ret |-> r.ret.url, probes |-> r.probes,
                 lookups |-> r.lookups, uploader |-> FALSE, inserted |-> 0]
           ELSE LET uploaded_url == run_local_fal_upload(upres)
                    ins == insert_upload(r.db, t, basename(file_path),
                                         uploaded_url, file_path, c)
                IN IF uploaded_url = None
                   THEN [db |-> r.db, ret |-> None, probes |-> r.probes,
                         lookups |-> r.lookups, uploader |-> TRUE, inserted |-> 0]
                   ELSE IF insertOk
                   THEN [db |-> ins.db, ret |-> uploaded_url, probes |-> r.probes,
                         lookups |-> r.lookups, uploader |-> TRUE,
                         inserted |-> ins.ret]
                   ELSE [db |-> r.db, ret |-> "sqlite3.OperationalError",
                         probes |-> r.probes, lookups |-> r.lookups,
                         uploader |-> TRUE, inserted |-> 0]
           : r \in check_file_in_database(db, t, file_path, c, live1, live2)}

upload_with_database_wrapper(db, t, file_path, c, force, script, live1, live2, upres, insertOk) ==
  LET quiet == [db |-> db, ret |-> None, probes |-> <<>>, lookups |-> <<>>,
                uploader |-> FALSE, inserted |-> 0]
  IN IF ~exists(file_path, c) THEN {quiet}
     ELSE IF ~script THEN {quiet}
     ELSE {IF r.found /\ ~force
           THEN [db |-> r.db, ret |-> r.ret.url, probes |-> r.probes,
                 lookups |-> r.lookups, uploader |-> FALSE, inserted |-> 0]
           ELSE LET uploaded_url == run_local_fal_upload(upres)
                    ins == insert_upload(r.db, t, basename(file_path),
                                         uploaded_url, file_path, c)
                IN IF uploaded_url = None
                   THEN [db |-> r.db, ret |-> None, probes |-> r.probes,
                         lookups |-> r.lookups, uploader |-> TRUE, inserted |-> 0]
                   ELSE IF insertOk
                   THEN [db |-> ins.db, ret |-> uploaded_url, probes |-> r.probes,
                         lookups |-> r.lookups, uploader |-> TRUE,
                         inserted |-> ins.ret]
                   ELSE [db |-> r.db, ret |-> uploaded_url, probes |-> r.probes,
                         lookups |-> r.lookups, uploader |-> TRUE, inserted |-> 0]
           : r \in check_file_in_database(db, t, file_path, c, live1, live2)}

(* ------------------------------- inputs -------------------------------- *)
(* An input that the code never reads on a path is fixed to one value on   *)
(* that path: (missing file or missing uploader script) the rest is unread, *)
(* (uploader failed) the insert never runs.  live1 and live2 are the values *)
(* check_url_validity returned to the file name and to the hash lookup.     *)
ResolveInputs ==
  [file_path : Paths, c : FileStates, live1 : BOOLEAN, live2 : BOOLEAN]

UploadInputs ==
  {i \in [file_path : Paths, c : FileStates, force : BOOLEAN, script : BOOLEAN,
          live1 : BOOLEAN, live2 : BOOLEAN, upres : Urls \cup {None},
          insertOk : BOOLEAN] :
     /\ (i.c = Missing \/ ~i.script) =>
          (~i.force /\ i.live1 /\ i.live2 /\ i.upres = None /\ i.insertOk)
     /\ i.upres = None => i.insertOk}

JsonDocs ==
  {[file |-> Missing, data |-> <<>>], [file |-> Malformed, data |-> <<>>],
   [file |-> "json", data |-> <<>>]}
    \cup {[file |-> "json", data |-> <<<<f, u>>>>] : f \in Names, u \in Urls}
    \cup {[file |-> "json", data |-> d] :
            d \in {x \in (Names \X Urls) \X (Names \X Urls) : x[1][1] # x[2][1]}}

Upload(db, t, i) ==
  upload_with_database_wrapper(db, t, i.file_path, i.c, i.force, i.script,
                               i.live1, i.live2, i.upres, i.insertOk)

Resolve(db, t, i) ==
  check_file_in_database(db, t, i.file_path, i.c, i.live1, i.live2)

(* The command line of the upload command: nargs = len(sys.argv) - 1,      *)
(* stats says that sys.argv[1] is the word "stats"; sys.argv[2] is read    *)
(* for the force flag only, so a second argument stands for the flag.      *)
(* An outcome of main: the table, the exit status, and in out the outcome  *)
(* of the upload_with_database_wrapper call when main made one.            *)
NoUpload ==
  [file_path |-> <<"in", "a.png">>, c |-> Missing, force |-> FALSE, script |-> TRUE,
   live1 |-> TRUE, live2 |-> TRUE, upres |-> None, insertOk |-> TRUE]

MainInputs ==
  {[nargs |-> 0, stats |-> FALSE, i |-> NoUpload],
   [nargs |-> 1, stats |-> TRUE, i |-> NoUpload]}
    \cup {[nargs |-> IF i.force THEN 2 ELSE 1, stats |-> FALSE, i |-> i] : i \in UploadInputs}

(* A slip: the sys.exit(1) after a call that returned no url is left out.  *)
main_noexit(db, t, nargs, stats, i) ==
  IF nargs < 1
  THEN {[db |-> db, exit |-> 1, called |-> FALSE, out |-> {}]}
  ELSE IF stats
  THEN {[db |-> db, exit |-> 0, called |-> FALSE, out |-> {}]}
  ELSE {[db |-> result.db, exit |-> 0, called |-> TRUE, out |-> {result}]
        : result \in Upload(db, t, i)}

main(db, t, nargs, stats, i) ==
  IF nargs < 1
  THEN {[db |-> db, exit |-> 1, called |-> FALSE, out |-> {}]}
  ELSE IF stats
  THEN {[db |-> db, exit |-> 0, called |-> FALSE, out |-> {}]}
  ELSE {[db |-> result.db, exit |-> IF result.ret # None THEN 0 ELSE 1,
         called |-> TRUE, out |-> {result}]
        : result \in Upload(db, t, i)}

(* ------------------------------ operations ----------------------------- *)
(* callers holds the position of each of two processes that run            *)
(* upload_with_database_wrapper side by side (the last specification       *)
(* below); in the other specifications every operation runs alone, from    *)
(* its call to its return, and the two stay idle.                          *)
Callers == {1, 2}

InsertUpload(filename, url, file_path, c) ==
  /\ uploads' = insert_upload(uploads, now, filename, url, file_path, c).db
  /\ UNCHANGED <<now, callers>>

InvalidateRecord(id) ==
  /\ uploads' = invalidate_record(uploads, now, id)
  /\ UNCHANGED <<now, callers>>

FindByFilename(filename, validate_url, live) ==
  /\ \E out \in find_by_filename(uploads, now, filename, validate_url, live) :
       uploads' = out.db
  /\ UNCHANGED <<now, callers>>

FindByHash(file_hash, validate_url, live) ==
  /\ \E out \in find_by_hash(uploads, now, file_hash, validate_url, live) :
       uploads' = out.db
  /\ UNCHANGED <<now, callers>>

CleanupInvalidUrls(batch_size, live) ==
  /\ \E out \in cleanup_invalid_urls(uploads, now, batch_size, live) :
       uploads' = out.db
  /\ UNCHANGED <<now, callers>>

GetStats ==
  /\ get_stats(uploads).total_records >= 0
  /\ UNCHANGED vars

SearchUploads(query, limit) ==
  /\ search_uploads(uploads, query, limit) # {}
  /\ UNCHANGED vars

MigrateFromJson(doc) ==
  /\ \E out \in migrate_from_json(uploads, now, doc) : uploads' = out.db
  /\ UNCHANGED <<now, callers>>

CheckFileInDatabase(i) ==
  /\ \E out \in Resolve(uploads, now, i) : uploads' = out.db
  /\ UNCHANGED <<now, callers>>

Main(m) ==
  /\ \E out \in main(uploads, now, m.nargs, m.stats, m.i) : uploads' = out.db
  /\ UNCHANGED <<now, callers>>

(* ------------------------------ environment ---------------------------- *)
Tick ==
  /\ now < MaxTime
  /\ now' = now + 1
  /\ UNCHANGED <<uploads, callers>>

Init ==
  /\ uploads = <<>>
  /\ now = 0
  /\ callers = [c \in Callers |-> [pc |-> "idle", url |-> None, ret |-> None]]

Next ==
  \/ \E f \in Names, u \in Urls, c \in FileStates :
       \E p \in {NoPath} \cup {q \in Paths : basename(q) = f} :
         Len(uploads) < MaxRecords /\ InsertUpload(f, u, p, c)
  \/ \E id \in 1..MaxRecords : InvalidateRecord(id)
  \/ \E f \in Names, v \in BOOLEAN, head \in HeadResults :
       FindByFilename(f, v, check_url_validity(head))
  \/ \E h \in Hashes, v \in BOOLEAN, head \in HeadResults :
       FindByHash(h, v, check_url_validity(head))
  \/ \E b \in BatchSizes, heads \in [1..Len(uploads) -> HeadResults] :
       CleanupInvalidUrls(b, [k \in 1..Len(uploads) |-> check_url_validity(heads[k])])
  \/ GetStats
  \/ \E doc \in JsonDocs : MigrateFromJson(doc) /\ Len(uploads') <= MaxRecords
  \/ \E i \in ResolveInputs : CheckFileInDatabase(i)
  \/ \E m \in MainInputs : Main(m) /\ Len(uploads') <= MaxRecords
  \/ Tick

Spec == Init /\ [][Next]_vars

(* The store alone, one file name and one url, one live and one failing    *)
(* HEAD result, for the counting claims.                                   *)
NextStats ==
  \/ \E f \in StatsNames, u \in StatsUrls :
       Len(uploads) < MaxStatsRecords /\ InsertUpload(f, u, NoPath, Missing)
  \/ \E id \in 1..MaxStatsRecords : InvalidateRecord(id)
  \/ \E f \in StatsNames, v \in BOOLEAN, head \in StatsHeads :
       FindByFilename(f, v, check_url_validity(head))
  \/ \E b \in BatchSizes, heads \in [1..Len(uploads) -> StatsHeads] :
       CleanupInvalidUrls(b, [k \in 1..Len(uploads) |-> check_url_validity(heads[k])])
  \/ GetStats
  \/ Tick

SpecStats == Init /\ [][NextStats]_vars

(* The store with its search: search_uploads only reads the table, so the  *)
(* tables that inserts and invalidations build are the ones it can meet.   *)
NextSearch ==
  \/ \E f \in Names, u \in Urls :
       \E p \in {NoPath} \cup {q \in Paths : basename(q) = f} :
         Len(uploads) < MaxRecords /\ InsertUpload(f, u, p, "B1")
  \/ \E id \in 1..MaxRecords : InvalidateRecord(id)
  \/ \E q \in Queries, l \in Limits : SearchUploads(q, l)
  \/ Tick

SpecSearch == Init /\ [][NextSearch]_vars

(* Two processes run upload_with_database_wrapper(RaceFile) without the     *)
(* force flag on an empty table.  Every call of a FalUploadDB method opens *)
(* its own connection and commits before it returns, and the method calls  *)
(* of the two processes interleave in any order; the clock may advance     *)
(* between any two of them.                                                *)
RaceFile == <<"in", "a.png">>

RaceContent == "B1"

InitRace ==
  /\ uploads = <<>>
  /\ now = 0
  /\ callers = [c \in Callers |-> [pc |-> "start", url |-> None, ret |-> None]]

RaceFindByFilename(c, live) ==
  /\ callers[c].pc = "start"
  /\ \E out \in find_by_filename(uploads, now, basename(RaceFile), TRUE, live) :
       /\ uploads' = out.db
       /\ callers' = [callers EXCEPT ![c] =
            IF out.ret # NoRow
            THEN [pc |-> "done", url |-> None, ret |-> out.ret.url]
            ELSE [pc |-> "hash", url |-> None, ret |-> None]]
  /\ UNCHANGED now

RaceFindByHash(c, live) ==
  /\ callers[c].pc = "hash"
  /\ \E out \in find_by_hash(uploads, now, calculate_file_hash(RaceContent), TRUE, live) :
       /\ uploads' = out.db
       /\ callers' = [callers EXCEPT ![c] =
            IF out.ret # NoRow
            THEN [pc |-> "done", url |-> None, ret |-> out.ret.url]
            ELSE [pc |-> "upload", url |-> None, ret |-> None]]
  /\ UNCHANGED now

RaceUpload(c, upres) ==
  /\ callers[c].pc = "upload"
  /\ callers' = [callers EXCEPT ![c] =
       IF run_local_fal_upload(upres) = None
       THEN [pc |-> "failed", url |-> None, ret |-> None]
       ELSE [pc |-> "insert", url |-> run_local_fal_upload(upres), ret |-> None]]
  /\ UNCHANGED <<uploads, now>>

RaceInsert(c, insertOk) ==
  /\ callers[c].pc = "insert"
  /\ uploads' = IF insertOk
                THEN insert_upload(uploads, now, basename(RaceFile), callers[c].url,
                                   RaceFile, RaceContent).db
                ELSE uploads
  /\ callers' = [callers EXCEPT ![c] =
       [pc |-> "done", url |-> callers[c].url, ret |-> callers[c].url]]
  /\ UNCHANGED now

NextRace ==
  \/ \E c \in Callers, head \in HeadResults :
       RaceFindByFilename(c, check_url_validity(head))
  \/ \E c \in Callers, head \in HeadResults :
       RaceFindByHash(c, check_url_validity(head))
  \/ \E c \in Callers, upres \in Urls \cup {None} : RaceUpload(c, upres)
  \/ \E c \in Callers, insertOk \in BOOLEAN : RaceInsert(c, insertOk)
  \/ Tick

SpecRace == InitRace /\ [][NextRace]_vars

(* ======================================================================== *)
(*                                 claims                                   *)
(* ======================================================================== *)
ValidIds(db) == {i \in 1..Len(db) : db[i].is_valid = 1}

Matching(db, col, key) == {i \in ValidIds(db) : db[i][col] = key}

MaxOf(S) == CHOOSE x \in S : \A y \in S : y <= x

CanUpload(i) == i.script /\ i.c # Missing

(* No two valid records share created_at: the ORDER BY created_at DESC     *)
(* LIMIT 1 of the lookups has one possible answer.                         *)
NoTies ==
  \A k \in ValidIds(uploads), j \in ValidIds(uploads) :
    k # j => uploads[k].created_at # uploads[j].created_at

(* C1: when the newest valid record of the file name was stored for this   *)
(* very path and the file still has the bytes hashed then, an upload call  *)
(* without the force flag whose probes succeed returns that record's url,  *)
(* does not invoke the uploader and inserts nothing.                       *)
C1_Dedup ==
  \A i \in UploadInputs :
    LET S == Matching(uploads, "filename", basename(i.file_path))
    IN (/\ CanUpload(i) /\ ~i.force /\ i.live1 /\ i.live2
        /\ S # {}
        /\ uploads[MaxOf(S)].file_path = i.file_path
        /\ uploads[MaxOf(S)].file_hash = calculate_file_hash(i.c))
       => \A out \in Upload(uploads, now, i) :
            /\ out.ret = uploads[MaxOf(S)].url
            /\ ~out.uploader
            /\ out.inserted = 0
            /\ Len(out.db) = Len(uploads)

(* C2: find_by_filename and find_by_hash (probe succeeding or validation   *)
(* off) return the matching valid record that was created last, nothing    *)
(* when there is none, and never a record with is_valid = 0.               *)
C2_LatestValid ==
  /\ \A f \in Names, v \in BOOLEAN :
       \A out \in find_by_filename(uploads, now, f, v, TRUE) :
         LET S == Matching(uploads, "filename", f)
         IN IF S = {} THEN out.ret = NoRow
            ELSE out.ret # NoRow /\ out.ret.id = MaxOf(S)
  /\ \A h \in Hashes, v \in BOOLEAN :
       \A out \in find_by_hash(uploads, now, h, v, TRUE) :
         LET S == Matching(uploads, "file_hash", h)
         IN IF S = {} THEN out.ret = NoRow
            ELSE out.ret # NoRow /\ out.ret.id = MaxOf(S)

(* C3: no step of any operation takes a record from is_valid = 0 back to   *)
(* 1 (or removes it), and invalidate_record on an invalid record leaves    *)
(* is_valid = 0.                                                           *)
C3_InvalidationMonotonic ==
  [][/\ \A k \in 1..Len(uploads) :
          uploads[k].is_valid = 0 => (k <= Len(uploads') /\ uploads'[k].is_valid = 0)
     /\ \A id \in 1..Len(uploads) :
          uploads[id].is_valid = 0 =>
            invalidate_record(uploads, now, id)[id].is_valid = 0]_vars

(* C3 witness: a record is invalid and a lookup refreshed another record   *)
(* strictly after that invalidation.                                       *)
C3_Witness ==
  \E k \in 1..Len(uploads), j \in 1..Len(uploads) :
    /\ uploads[k].is_valid = 0
    /\ uploads[j].is_valid = 1
    /\ uploads[j].last_verified > uploads[k].updated_at
    /\ uploads[j].last_verified > uploads[j].created_at

(* C4 as stated: a resolve that returns a record made no probe, in that    *)
(* call, that came back not-live for the returned record's url.  Taken in  *)
(* the states without created_at ties, so that the tie of C2 has no part.  *)
C4_NoDeadUrlReturned ==
  \A i \in ResolveInputs :
    \A out \in Resolve(uploads, now, i) :
      (NoTies /\ out.found) =>
        \A k \in 1..Len(out.probes) :
          out.probes[k].url = out.ret.url => out.probes[k].live

(* C4 amended: a resolve that returns a record probed that very record     *)
(* last, the probe came back live, no probe of that record came back       *)
(* not-live, and the record is still valid.                                *)
C4_NoDeadRecordReturned ==
  \A i \in ResolveInputs :
    \A out \in Resolve(uploads, now, i) :
      out.found =>
        /\ out.ret # NoRow
        /\ out.probes # <<>>
        /\ out.probes[Len(out.probes)] = [id |-> out.ret.id, url |-> out.ret.url,
                                          live |-> TRUE]
        /\ \A k \in 1..Len(out.probes) :
             out.probes[k].id = out.ret.id => out.probes[k].live
        /\ out.db[out.ret.id].is_valid = 1

(* C4 witness: the file name candidate failed its probe, and the hash      *)
(* candidate, another record with the same url, is returned.               *)
C4_Witness ==
  \E i \in ResolveInputs :
    \E out \in Resolve(uploads, now, i) :
      /\ NoTies
      /\ out.found
      /\ Len(out.probes) = 2
      /\ ~out.probes[1].live
      /\ out.probes[1].id # out.ret.id
      /\ out.probes[1].url = out.ret.url

(* C5: when the newest valid record of the file name fails its probe, it   *)
(* is invalidated, the file name is looked up once only, every other       *)
(* record the call touches was selected by the content hash, and the call  *)
(* reports not-found unless the hash lookup gave a live record.            *)
C5_SinglePass ==
  \A i \in ResolveInputs :
    LET S == SelectLatest(uploads, "filename", basename(i.file_path))
        h == calculate_file_hash(i.c)
    IN (S # {} /\ ~i.live1) =>
       \A out \in Resolve(uploads, now, i) :
         /\ out.probes # <<>>
         /\ out.probes[1].id \in S
         /\ ~out.probes[1].live
         /\ out.db[out.probes[1].id].is_valid = 0
         /\ out.lookups \in {<<"filename">>, <<"filename", "file_hash">>}
         /\ \A k \in 1..Len(uploads) :
              (k # out.probes[1].id /\ (h = None \/ uploads[k].file_hash # h))
                => out.db[k] = uploads[k]
         /\ out.found =>
              /\ h # None
              /\ i.live2
              /\ uploads[out.ret.id].file_hash = h
              /\ out.ret.id # out.probes[1].id
         /\ (i.c = Missing \/ h = None \/ ~i.live2
               \/ Matching(uploads, "file_hash", h) \ {out.probes[1].id} = {})
              => (~out.found /\ out.ret = NoRow)

(* C5 witness: the newest record of the name is dead, an older record of   *)
(* the same name is valid and stays so, and resolve reports not-found.     *)
C5_Witness ==
  \E i \in ResolveInputs :
    \E out \in Resolve(uploads, now, i) :
      /\ ~i.live1
      /\ ~out.found
      /\ out.probes # <<>>
      /\ \E j \in 1..Len(uploads) :
           /\ uploads[j].created_at < uploads[out.probes[1].id].created_at
           /\ uploads[j].filename = basename(i.file_path)
           /\ uploads[j].is_valid = 1
           /\ out.db[j].is_valid = 1

RenamedCopy(r, i) ==
  /\ uploads[r].is_valid = 1
  /\ uploads[r].file_hash # None
  /\ uploads[r].file_hash = calculate_file_hash(i.c)
  /\ basename(i.file_path) # uploads[r].filename
  /\ Matching(uploads, "filename", basename(i.file_path)) = {}
  /\ i.live1 /\ i.live2

(* C6 as stated: resolving a renamed copy of a valid record's file, with   *)
(* probes succeeding and no valid record under the new name, returns       *)
(* found with that record's url.  Taken in the states without created_at  *)
(* ties, so that the tie of C2 has no part.                                *)
C6_HashFallbackThatRecord ==
  \A r \in 1..Len(uploads), i \in ResolveInputs :
    (NoTies /\ RenamedCopy(r, i)) =>
      \A out \in Resolve(uploads, now, i) :
        out.found /\ out.ret.url = uploads[r].url

(* C6 amended: such a resolve returns found with a valid record that has   *)
(* the file's hash and the greatest created_at among those; it is that     *)
(* record's url when no other valid record has the hash.                   *)
C6_HashFallback ==
  \A r \in 1..Len(uploads), i \in ResolveInputs :
    RenamedCopy(r, i) =>
      \A out \in Resolve(uploads, now, i) :
        /\ out.found
        /\ out.lookups = <<"filename", "file_hash">>
        /\ out.ret.id \in Matching(uploads, "file_hash", uploads[r].file_hash)
        /\ \A j \in Matching(uploads, "file_hash", uploads[r].file_hash) :
             uploads[j].created_at <= uploads[out.ret.id].created_at
        /\ Matching(uploads, "file_hash", uploads[r].file_hash) = {r}
             => out.ret.url = uploads[r].url

(* C6 witness: a renamed copy of a stored file is resolved by its hash.    *)
C6_Witness ==
  \E r \in 1..Len(uploads), i \in ResolveInputs :
    /\ RenamedCopy(r, i)
    /\ \E out \in Resolve(uploads, now, i) :
         out.found /\ out.ret.id = r /\ out.ret.filename # basename(i.file_path)

(* C7: insert_upload(filename, url, ...) followed at once by a resolve of  *)
(* a path with that file name, probes succeeding, returns found with the   *)
(* url just inserted.                                                      *)
C7_RoundTrip ==
  \A f \in Names, u \in Urls, c \in FileStates, i \in ResolveInputs :
    (basename(i.file_path) = f /\ i.live1 /\ i.live2 /\ Len(uploads) < MaxRecords)
      => \A out \in Resolve(insert_upload(uploads, now, f, u, i.file_path, c).db,
                            now, i) :
           out.found /\ out.ret.url = u

AllDead == [k \in 1..Len(uploads) |-> FALSE]

C9_Stats ==
  LET s == get_stats(uploads)
  IN /\ s.valid_records = Cardinality({k \in 1..Len(uploads) : uploads[k].is_valid = 1})
     /\ s.invalid_records = Cardinality({k \in 1..Len(uploads) : uploads[k].is_valid = 0})
     /\ s.total_records = s.valid_records + s.invalid_records
     /\ \A f \in StatsNames, u \in StatsUrls :
          get_stats(insert_upload(uploads, now, f, u, NoPath, Missing).db)
            = [total_records |-> s.total_records + 1,
               valid_records |-> s.valid_records + 1,
               invalid_records |-> s.invalid_records]
     /\ \A id \in ValidIds(uploads) :
          get_stats(invalidate_record(uploads, now, id))
            = [total_records |-> s.total_records,
               valid_records |-> s.valid_records - 1,
               invalid_records |-> s.invalid_records + 1]

(* C9 witness: three inserts and one invalidation, reported as 2 and 1.    *)
C9_Witness ==
  /\ Len(uploads) = 3
  /\ get_stats(uploads) = [total_records |-> 3, valid_records |-> 2,
                           invalid_records |-> 1]

(* C10 as stated: an upload call with the force flag makes no lookup and   *)
(* no probe, invalidates nothing, changes no last_verified, and invokes    *)
(* the uploader.                                                           *)
C10_ForceSkipsResolver ==
  \A i \in UploadInputs :
    (CanUpload(i) /\ i.force) =>
      \A out \in Upload(uploads, now, i) :
        /\ out.lookups = <<>>
        /\ out.probes = <<>>
        /\ \A k \in 1..Len(uploads) :
             /\ out.db[k].is_valid = uploads[k].is_valid
             /\ out.db[k].last_verified = uploads[k].last_verified
        /\ out.uploader

(* C10 amended: with the force flag the call still runs the resolver       *)
(* first, with the lookups, probes, invalidations and last_verified        *)
(* refresh of a resolve of that path, ignores its result, and invokes the  *)
(* uploader whenever the file and the uploader script exist.               *)
C10_ForceIgnoresResolver ==
  \A i \in UploadInputs :
    (CanUpload(i) /\ i.force) =>
      \A out \in Upload(uploads, now, i) :
        /\ out.uploader
        /\ out.lookups # <<>> /\ out.lookups[1] = "filename"
        /\ \E r \in check_file_in_database(uploads, now, i.file_path, i.c,
                                           i.live1, i.live2) :
             /\ out.probes = r.probes
             /\ out.lookups = r.lookups
             /\ SubSeq(out.db, 1, Len(uploads)) = r.db
        /\ \A k \in 1..Len(out.probes) :
             ~out.probes[k].live => out.db[out.probes[k].id].is_valid = 0
        /\ (out.lookups = <<"filename">> /\ out.probes # <<>> /\ out.probes[1].live)
             => out.db[out.probes[1].id].last_verified = now
        /\ out.ret = i.upres

(* C10 witness: a forced upload finds a live record, refreshes its         *)
(* last_verified, and uploads and inserts all the same.                    *)
C10_Witness ==
  \E i \in UploadInputs :
    /\ CanUpload(i) /\ i.force
    /\ \E out \in Upload(uploads, now, i) :
         /\ out.uploader
         /\ out.inserted = Len(uploads) + 1
         /\ \E k \in 1..Len(uploads) :
              /\ out.probes = <<[id |-> k, url |-> uploads[k].url, live |-> TRUE]>>
              /\ uploads[k].last_verified < now
              /\ out.db[k].last_verified = now

(* C11: when the uploader returned a url and the insert_upload that        *)
(* follows fails, the upload call still returns the uploaded url: no error *)
(* leaves the call, and the table gets no new record.                      *)
C11_InsertFailureTolerated ==
  \A i \in UploadInputs :
    (CanUpload(i) /\ i.upres # None /\ ~i.insertOk) =>
      \A out \in Upload(uploads, now, i) :
        out.uploader =>
          /\ out.ret = i.upres
          /\ out.ret \in Urls
          /\ out.inserted = 0
          /\ Len(out.db) = Len(uploads)

(* C11 witness: the resolver invalidated a dead record, the uploader gave  *)
(* a url, the insert failed, and the call returns that url.                *)
C11_Witness ==
  \E i \in UploadInputs :
    /\ CanUpload(i) /\ i.upres # None /\ ~i.insertOk
    /\ \E out \in Upload(uploads, now, i) :
         /\ out.uploader
         /\ out.ret = i.upres
         /\ out.probes # <<>>
         /\ out.db # uploads
         /\ Len(out.db) = Len(uploads)

NotOk(head) == ~(head.error = None /\ head.status_code = 200)

WithHeads(i, head1, head2) ==
  [i EXCEPT !.live1 = check_url_validity(head1), !.live2 = check_url_validity(head2)]

(* The HEAD result behind the k-th probe of a resolve of i: the file name  *)
(* lookup probes first when it selects a record, the hash lookup after it. *)
HeadOf(i, k, head1, head2) ==
  IF SelectLatest(uploads, "filename", basename(i.file_path)) # {} /\ k = 1
  THEN head1 ELSE head2

(* C12: a probe whose HEAD request ends in anything but status 200 (other  *)
(* status, timeout, connection error) makes check_url_validity return      *)
(* false; in find_by_filename, find_by_hash, resolve and the sweep the     *)
(* probed record is then invalidated and the call returns a value (no      *)
(* record from that probe), never an error.                                *)
C12_ProbeFailureInvalidates ==
  /\ \A head \in HeadResults : NotOk(head) =>
       /\ check_url_validity(head) = FALSE
       /\ \A f \in Names :
            \A out \in find_by_filename(uploads, now, f, TRUE, check_url_validity(head)) :
              /\ out.ret = NoRow
              /\ Matching(uploads, "filename", f) # {} => Len(out.probes) = 1
              /\ \A k \in 1..Len(out.probes) : out.db[out.probes[k].id].is_valid = 0
       /\ \A h \in Hashes :
            \A out \in find_by_hash(uploads, now, h, TRUE, check_url_validity(head)) :
              /\ out.ret = NoRow
              /\ Matching(uploads, "file_hash", h) # {} => Len(out.probes) = 1
              /\ \A k \in 1..Len(out.probes) : out.db[out.probes[k].id].is_valid = 0
  /\ \A i \in {j \in ResolveInputs : j.live1 /\ j.live2}, head1 \in HeadResults, head2 \in HeadResults :
       \A out \in Resolve(uploads, now, WithHeads(i, head1, head2)) :
         /\ out.found \in BOOLEAN
         /\ out.found = (out.ret # NoRow)
         /\ \A k \in 1..Len(out.probes) :
              NotOk(HeadOf(i, k, head1, head2)) =>
                /\ ~out.probes[k].live
                /\ out.db[out.probes[k].id].is_valid = 0
                /\ out.ret # NoRow => out.ret.id # out.probes[k].id
  /\ \A b \in BatchSizes, heads \in [1..Len(uploads) -> HeadResults] :
       \A out \in cleanup_invalid_urls(uploads, now, b, [k \in 1..Len(uploads) |-> check_url_validity(heads[k])]) :
         /\ out.ret \in 0..Len(uploads)
         /\ \A pr \in out.probed :
              NotOk(heads[pr.id]) => (~pr.live /\ out.db[pr.id].is_valid = 0)

(* C12 witness: the HEAD request of the file name candidate times out, the *)
(* valid record is invalidated and resolve reports not-found.              *)
C12_Witness ==
  \E i \in {j \in ResolveInputs : j.live1 /\ j.live2} :
    \E out \in Resolve(uploads, now, WithHeads(i, [status_code |-> 0, error |-> "Timeout"], [status_code |-> 204, error |-> None])) :
      /\ Len(out.probes) = 2
      /\ uploads[out.probes[1].id].is_valid = 1
      /\ uploads[out.probes[2].id].is_valid = 1
      /\ out.db[out.probes[1].id].is_valid = 0
      /\ out.db[out.probes[2].id].is_valid = 0
      /\ ~out.found

(* C13: when the file path does not exist, upload_with_database_wrapper    *)
(* returns no url, does not invoke the uploader and leaves the table as it *)
(* was; when the uploader fails it returns no url and inserts no record;   *)
(* in both cases the command exits with a non-zero status.                 *)
C13_FailureOutcomes ==
  \A m \in MainInputs :
    \A done \in main(uploads, now, m.nargs, m.stats, m.i) :
      \A out \in done.out :
        /\ m.i.c = Missing =>
             /\ out.ret = None
             /\ ~out.uploader
             /\ out.inserted = 0
             /\ out.db = uploads
             /\ done.db = uploads
             /\ done.exit # 0
        /\ (out.uploader /\ run_local_fal_upload(m.i.upres) = None) =>
             /\ out.ret = None
             /\ out.inserted = 0
             /\ Len(out.db) = Len(uploads)
             /\ Len(done.db) = Len(uploads)
             /\ done.exit # 0

(* C13 witness: the resolver invalidated a dead record, the uploader then  *)
(* failed, and the command exits with status 1 and no new record.          *)
C13_Witness ==
  \E m \in MainInputs :
    \E done \in main(uploads, now, m.nargs, m.stats, m.i) :
      \E out \in done.out :
        /\ out.uploader
        /\ m.i.upres = None
        /\ out.ret = None
        /\ done.exit = 1
        /\ done.db # uploads
        /\ Len(done.db) = Len(uploads)

(* What one call may probe: only records that are valid when the call      *)
(* starts; every record whose probe failed is invalid in the table the     *)
(* call leaves, and is not probed a second time by the same call.          *)
ProbesOnlyValid(db, probes, after) ==
  \A k \in 1..Len(probes) :
    /\ probes[k].id \in ValidIds(db)
    /\ ~probes[k].live =>
         /\ after[probes[k].id].is_valid = 0
         /\ \A j \in (k + 1)..Len(probes) : probes[j].id # probes[k].id

DeadProbed(probes) == {probes[k].id : k \in {j \in 1..Len(probes) : ~probes[j].live}}

(* C14: a record whose probe failed in a lookup, a resolve or a sweep has  *)
(* is_valid = 0 when that call returns; every call probes only records     *)
(* with is_valid = 1, a lookup that follows does not probe the dead record, *)
(* and is_valid = 0 is never undone, so no later call probes it again.     *)
C14_NoReprobe ==
  /\ [](/\ \A f \in Names, live \in BOOLEAN :
           \A out \in find_by_filename(uploads, now, f, TRUE, live) :
             /\ ProbesOnlyValid(uploads, out.probes, out.db)
             /\ \A live2 \in BOOLEAN :
                  \A next \in find_by_filename(out.db, now, f, TRUE, live2) :
                    \A k \in 1..Len(next.probes) :
                      next.probes[k].id \notin DeadProbed(out.probes)
        /\ \A h \in Hashes, live \in BOOLEAN :
           \A out \in find_by_hash(uploads, now, h, TRUE, live) :
             /\ ProbesOnlyValid(uploads, out.probes, out.db)
             /\ \A live2 \in BOOLEAN :
                  \A next \in find_by_hash(out.db, now, h, TRUE, live2) :
                    \A k \in 1..Len(next.probes) :
                      next.probes[k].id \notin DeadProbed(out.probes)
        /\ \A i \in ResolveInputs :
           \A out \in Resolve(uploads, now, i) :
             ProbesOnlyValid(uploads, out.probes, out.db)
        /\ \A b \in BatchSizes, live \in [1..Len(uploads) -> BOOLEAN] :
           \A out \in cleanup_invalid_urls(uploads, now, b, live) :
             /\ \A pr \in out.probed :
                  /\ pr.id \in ValidIds(uploads)
                  /\ ~pr.live => out.db[pr.id].is_valid = 0
             /\ \A next \in cleanup_invalid_urls(out.db, now, b, live) :
                  \A pr \in out.probed, nx \in next.probed :
                    ~pr.live => nx.id # pr.id)
  /\ [][\A k \in 1..Len(uploads) :
          uploads[k].is_valid = 0 => (k <= Len(uploads') /\ uploads'[k].is_valid = 0)]_vars

(* C14 witness: a record was invalidated, and a resolve of its file name   *)
(* and content probes the remaining valid record, not the dead one.        *)
C14_Witness ==
  \E d \in 1..Len(uploads), i \in ResolveInputs :
    /\ uploads[d].is_valid = 0
    /\ uploads[d].updated_at > uploads[d].created_at
    /\ basename(i.file_path) = uploads[d].filename
    /\ calculate_file_hash(i.c) = uploads[d].file_hash
    /\ \E out \in Resolve(uploads, now, i) :
         /\ out.found
         /\ out.ret.filename = uploads[d].filename
         /\ \A k \in 1..Len(out.probes) : out.probes[k].id # d

AllLive == [k \in 1..Len(uploads) |-> TRUE]

SameLastVerified(db) ==
  \A k \in 1..Len(uploads) : db[k].last_verified = uploads[k].last_verified

(* C15: last_verified is set at insertion and afterwards refreshed exactly *)
(* when a probe of the record succeeds: a successful probe in              *)
(* find_by_filename, find_by_hash or the sweep sets it to the current      *)
(* time, and a lookup with validate_url = False, the legacy import, an     *)
(* invalidation or a failed probe leave every last_verified as it was.     *)
C15_LastVerified ==
  /\ \A f \in Names, u \in Urls :
       LET ins == insert_upload(uploads, now, f, u, NoPath, Missing)
       IN ins.db[ins.ret].last_verified = now
  /\ \A f \in Names :
       /\ \A out \in find_by_filename(uploads, now, f, TRUE, TRUE) :
            \A k \in 1..Len(out.probes) : out.db[out.probes[k].id].last_verified = now
       /\ \A out \in find_by_filename(uploads, now, f, TRUE, FALSE) :
            SameLastVerified(out.db)
       /\ \A out \in find_by_filename(uploads, now, f, FALSE, TRUE) :
            SameLastVerified(out.db)
  /\ \A h \in Hashes :
       /\ \A out \in find_by_hash(uploads, now, h, TRUE, TRUE) :
            \A k \in 1..Len(out.probes) : out.db[out.probes[k].id].last_verified = now
       /\ \A out \in find_by_hash(uploads, now, h, TRUE, FALSE) :
            SameLastVerified(out.db)
       /\ \A out \in find_by_hash(uploads, now, h, FALSE, TRUE) :
            SameLastVerified(out.db)
  /\ \A b \in BatchSizes :
       /\ \A out \in cleanup_invalid_urls(uploads, now, b, AllLive) :
            \A pr \in out.probed : out.db[pr.id].last_verified = now
       /\ \A out \in cleanup_invalid_urls(uploads, now, b, AllDead) :
            SameLastVerified(out.db)
  /\ \A doc \in JsonDocs :
       \A out \in migrate_from_json(uploads, now, doc) : SameLastVerified(out.db)
  /\ \A id \in 1..Len(uploads) : SameLastVerified(invalidate_record(uploads, now, id))

(* C16: no step of any operation changes the filename, url, file_hash or   *)
(* upload_date of an existing record, nor removes the record; the fields   *)
(* of an existing record that a step may change are is_valid,              *)
(* last_verified and updated_at only.                                      *)
C16_ImmutableFields ==
  [][\A k \in 1..Len(uploads) :
       /\ k <= Len(uploads')
       /\ uploads'[k].filename = uploads[k].filename
       /\ uploads'[k].url = uploads[k].url
       /\ uploads'[k].file_hash = uploads[k].file_hash
       /\ uploads'[k].upload_date = uploads[k].upload_date
       /\ uploads'[k] = [uploads[k] EXCEPT !.is_valid = uploads'[k].is_valid,
                                           !.last_verified = uploads'[k].last_verified,
                                           !.updated_at = uploads'[k].updated_at]]_vars

(* C16 witness: a record was refreshed by a lookup after its upload, then  *)
(* invalidated, and another record was inserted after it.                  *)
C16_Witness ==
  \E k \in 1..Len(uploads) :
    /\ k < Len(uploads)
    /\ uploads[k].last_verified > uploads[k].upload_date
    /\ uploads[k].is_valid = 0
    /\ uploads[Len(uploads)].created_at >= uploads[k].last_verified

(* C17: when two callers ran upload_with_database_wrapper for the same     *)
(* file on an empty table and both have returned, each caller whose        *)
(* uploader succeeded returned a url, and if the table then holds two      *)
(* valid records of the file name, every resolve of the file with the      *)
(* probe succeeding returns the one of the two that was created last.      *)
C17_RaceNewestWins ==
  (\A c \in Callers : callers[c].pc \in {"done", "failed"}) =>
    /\ \A c \in Callers : callers[c].pc = "done" => callers[c].ret \in Urls
    /\ LET S == Matching(uploads, "filename", basename(RaceFile))
       IN Cardinality(S) = 2 =>
            \A i \in ResolveInputs :
              (i.file_path = RaceFile /\ i.c = RaceContent /\ i.live1 /\ i.live2) =>
                \A out \in Resolve(uploads, now, i) :
                  out.found /\ out.ret.id = MaxOf(S)

(* C18: cleanup_invalid_urls(batch_size) probes at most batch_size         *)
(* records, each valid when the sweep starts and each once; it sets        *)
(* is_valid = 0 on exactly the probed records whose probe failed, leaves   *)
(* is_valid of every other record as it was, and returns the number of     *)
(* records it invalidated, a value from 0 to batch_size.                   *)
C18_SweepBatch ==
  \A b \in BatchSizes, live \in [1..Len(uploads) -> BOOLEAN] :
    \A out \in cleanup_invalid_urls(uploads, now, b, live) :
      LET ids == {pr.id : pr \in out.probed}
          dead == {k \in ids : ~live[k]}
      IN /\ Cardinality(out.probed) <= b
         /\ Cardinality(ids) = Cardinality(out.probed)
         /\ ids \subseteq ValidIds(uploads)
         /\ \A pr \in out.probed : pr.live = live[pr.id] /\ pr.url = uploads[pr.id].url
         /\ Len(out.db) = Len(uploads)
         /\ \A k \in 1..Len(uploads) :
              out.db[k].is_valid = IF k \in dead THEN 0 ELSE uploads[k].is_valid
         /\ out.ret = Cardinality(dead)
         /\ out.ret = Cardinality(ValidIds(uploads)) - Cardinality(ValidIds(out.db))
         /\ out.ret \in 0..b

(* C18 witness: three valid records, a sweep of batch size 1 whose probe   *)
(* fails invalidates one of them and returns 1.                            *)
C18_Witness ==
  /\ Cardinality(ValidIds(uploads)) = 3
  /\ \E out \in cleanup_invalid_urls(uploads, now, 1, AllDead) :
       /\ out.ret = 1
       /\ Cardinality(ValidIds(out.db)) = 2

RECURSIVE lowered(_)
lowered(s) == IF s = "" THEN "" ELSE lower(CharAt(s, 1)) \o lowered(From(s, 2))

(* q occurs in text as a substring, ASCII letters compared in either case. *)
Contains(text, q) ==
  \E k \in 1..(Len(text) + 1) :
    /\ k + Len(q) - 1 <= Len(text)
    /\ lowered(SubSeq(text, k, k + Len(q) - 1)) = lowered(q)

(* C19: search_uploads(query, limit) returns valid records only, at most   *)
(* limit of them, in the order of created_at, newest first; with the empty *)
(* query it returns min(limit, number of valid records) records and no     *)
(* valid record left out is newer than one returned; with a query, every   *)
(* returned record has the query as a substring (in either case) of its    *)
(* filename, url or file_path.                                             *)
C19_Search ==
  \A q \in Queries, l \in Limits :
    \A res \in search_uploads(uploads, q, l) :
      /\ Len(res) <= l
      /\ \A k \in 1..Len(res) : uploads[res[k].id].is_valid = 1
      /\ \A j \in 1..Len(res), k \in 1..Len(res) :
           j < k => /\ res[j].id # res[k].id
                    /\ uploads[res[j].id].created_at >= uploads[res[k].id].created_at
      /\ q = "" =>
           /\ Len(res) = IF l < Cardinality(ValidIds(uploads))
                         THEN l ELSE Cardinality(ValidIds(uploads))
           /\ \A i \in ValidIds(uploads) :
                (\A k \in 1..Len(res) : res[k].id # i) =>
                  \A k \in 1..Len(res) :
                    uploads[i].created_at <= uploads[res[k].id].created_at
      /\ q # "" =>
           \A k \in 1..Len(res) :
             LET row == uploads[res[k].id]
             IN \/ Contains(row.filename, q)
                \/ Contains(row.url, q)
                \/ (row.file_path # NoPath /\ Contains(PathText(row.file_path), q))

(* C20: no step of any operation removes a record: the table never gets    *)
(* shorter, every id present before the step (every id insert_upload ever  *)
(* returned) is present after it and names the same record, a new insert   *)
(* returns an id not used before, and total_records never decreases.       *)
C20_NeverDeleted ==
  /\ [](\A f \in Names, u \in Urls :
          LET ins == insert_upload(uploads, now, f, u, NoPath, Missing)
          IN ins.ret \notin 1..Len(uploads) /\ ins.ret \in 1..Len(ins.db))
  /\ [][/\ Len(uploads') >= Len(uploads)
        /\ \A id \in 1..Len(uploads) :
             /\ id \in 1..Len(uploads')
             /\ uploads'[id].created_at = uploads[id].created_at
             /\ uploads'[id].filename = uploads[id].filename
             /\ uploads'[id].url = uploads[id].url
        /\ get_stats(uploads').total_records >= get_stats(uploads).total_records]_vars

(* C20 witness: every record of a full table has been invalidated, one of  *)
(* them after a clock tick, and get_stats still counts them all.           *)
C20_Witness ==
  /\ Len(uploads) = MaxRecords
  /\ ValidIds(uploads) = {}
  /\ \E k \in 1..Len(uploads) : uploads[k].updated_at > uploads[k].created_at
  /\ get_stats(uploads).total_records = MaxRecords
  /\ get_stats(uploads).invalid_records = MaxRecords

====
